---- MODULE Spec2Model ----
(***************************************************************************)
(* dumpsys-rs: a cache of binder service handles (Dumpsys), a client bound *)
(* to one service (BoundDumpsys) and a one-shot dump function, all built   *)
(* on dump_inner and on TaskThread, a background thread fed by an mpsc     *)
(* channel.  The model follows one owner of one TaskThread from its        *)
(* construction to its drop, together with the calling threads, the worker *)
(* thread, the pipes and the status cells of the dump calls.               *)
(***************************************************************************)
EXTENDS Integers, Sequences, FiniteSets, TLC

\* ---------------------------------------------------------------- bounds
\* dump_inner calls made in one behaviour
MaxCalls == 2
\* successful hub::get_service lookups in one behaviour
MaxLookups == 2
\* bytes one remote dump call writes into its pipe
MaxBytes == 2

\* ------------------------------------------------------------ input sets
Callers == {"t1", "t2"}
Names == {"activity", "SurfaceFlinger"}
\* BoundDumpsys::new and the one-shot dump only hand the name to get_service
BoundNames == {"SurfaceFlinger"}
ArgSets == {<<>>, <<"recents">>}
\* 0xC3 0xA9 is the two-byte UTF-8 sequence of U+00E9; every other non-empty
\* sequence of these two bytes is invalid UTF-8
Bytes == {195, 169}
\* i32::from(StatusCode::Ok)
StatusOk == 0
\* non-OK status codes a remote dump call may return (DEAD_OBJECT, BAD_VALUE)
ErrCodes == {-32, -22}

CallIds == 1..MaxCalls

\* ------------------------------------------------------------ data types
\* SIBinder: id tells the results of different lookups apart, name is the
\* service it refers to, usable is whether as_proxy() yields a proxy for it
NoHandle == [id |-> 0, name |-> "", usable |-> FALSE]

Handle(i, n, u) == [id |-> i, name |-> n, usable |-> u]

\* enum Task
DumpTask(i, a, h) == [kind |-> "Dump", id |-> i, args |-> a, service |-> h]

ShutdownTask == [kind |-> "Shutdown", id |-> 0, args |-> <<>>, service |-> NoHandle]

NoTask == [kind |-> "None", id |-> 0, args |-> <<>>, service |-> NoHandle]

\* what a call of the public API returns, held for the step that returns it
\* and cleared by the next step: op is the call, name the
\* service name given, tag/err/code the Result, text the String of a dump,
\* val the bool of insert_service, handle the SIBinder of remove_service (or
\* the one new/insert_service resolved), id the dump_inner call of a dump
NoResult == [op |-> "none", name |-> "", tag |-> "None", err |-> "", code |-> 0,
             text |-> <<>>, val |-> FALSE, handle |-> NoHandle, id |-> 0]

OkText(i, n, t) == [NoResult EXCEPT !.op = "dump", !.name = n, !.tag = "Ok", !.text = t, !.id = i]

ErrOf(i, n, e, c) ==
    [NoResult EXCEPT !.op = "dump", !.name = n, !.tag = "Err", !.err = e, !.code = c, !.id = i]

OpOk(o, n, v, h) == [NoResult EXCEPT !.op = o, !.name = n, !.tag = "Ok", !.val = v, !.handle = h]

OpErr(o, n, e) == [NoResult EXCEPT !.op = o, !.name = n, !.tag = "Err", !.err = e]

\* io::pipe(): the bytes written and not yet read, and which ends are open
NoPipe == [buf |-> <<>>, wopen |-> FALSE, ropen |-> FALSE]

NewPipe == [buf |-> <<>>, wopen |-> TRUE, ropen |-> TRUE]

\* Arc<AtomicI32>: refs counts the Arc's owners, the cell is freed at 0
NoCell == [refs |-> 0, val |-> 0]

NewCell == [refs |-> 2, val |-> StatusOk]

\* what is recorded of a dump call that reached the worker: the service name
\* the caller gave, the handle dump_inner was given, the bytes the remote
\* call wrote, and how the task ended
NoHist == [name |-> "", service |-> NoHandle, written |-> <<>>, res |-> "none", code |-> 0]

\* ---------------------------------------------------------- pure helpers
\* core::str::from_utf8 as read_to_string applies it, for one- and two-byte
\* sequences: an ASCII byte stands alone, a lead byte 0xC2..0xDF needs one
\* continuation byte 0x80..0xBF, anything else is invalid
RECURSIVE Utf8Valid(_)
Utf8Valid(s) ==
    IF s = <<>> THEN TRUE
    ELSE IF s[1] < 128 THEN Utf8Valid(Tail(s))
    ELSE IF s[1] >= 194 /\ s[1] <= 223
         THEN Len(s) >= 2 /\ s[2] >= 128 /\ s[2] <= 191 /\ Utf8Valid(Tail(Tail(s)))
    ELSE FALSE

\* the pipes whose write-end is owned by a task of queue q
RECURSIVE QueuedIds(_)
QueuedIds(q) ==
    IF q = <<>> THEN {}
    ELSE (IF q[1].kind = "Dump" THEN {q[1].id} ELSE {}) \cup QueuedIds(Tail(q))

VARIABLES
    owner,      \* "none", "Dumpsys", "BoundDumpsys", "dump" (one-shot), "dropped"
    map,        \* Dumpsys.map
    service,    \* BoundDumpsys.service
    tx,         \* the TaskThread's Sender is alive
    queue,      \* the mpsc channel's content
    wpc,        \* worker thread: "unspawned", "recv", "call", "store", "exited", "panicked"
    cur,        \* the task the worker thread holds
    perr,       \* the Err(e) proxy.dump returned, before inspect_err runs
    remote,     \* ids of the dump calls executing in the remote service
    pipe,       \* the pipe of each dump_inner call
    cell,       \* the status cell of each dump_inner call
    nextCall,   \* number of dump_inner calls made
    nextHandle, \* number of successful lookups
    pc,         \* per caller: "idle", "read", "load"
    cid,        \* per caller: its dump_inner call, 0 if none
    rbuf,       \* per caller: buf of read_to_string
    last,       \* what the step just taken returned to its caller, if it returned
    hist,       \* per dump_inner call: what happened to its task
    newest      \* per name: id of the handle its last successful insert resolved

vars == <<owner, map, service, tx, queue, wpc, cur, perr, remote, pipe, cell,
          nextCall, nextHandle, pc, cid, rbuf, last, hist, newest>>

callerVars == <<pc, cid, rbuf>>

cacheVars == <<map, service, nextHandle, newest>>

workerVars == <<wpc, cur, perr, remote>>

Init ==
    /\ owner = "none"
    /\ map = [n \in Names |-> NoHandle]
    /\ service = NoHandle
    /\ tx = FALSE
    /\ queue = <<>>
    /\ wpc = "unspawned"
    /\ cur = NoTask
    /\ perr = StatusOk
    /\ remote = {}
    /\ pipe = [i \in CallIds |-> NoPipe]
    /\ cell = [i \in CallIds |-> NoCell]
    /\ nextCall = 0
    /\ nextHandle = 0
    /\ pc = [c \in Callers |-> "idle"]
    /\ cid = [c \in Callers |-> 0]
    /\ rbuf = [c \in Callers |-> <<>>]
    /\ last = NoResult
    /\ hist = [i \in CallIds |-> NoHist]
    /\ newest = [n \in Names |-> 0]

\* ------------------------------------------------------------- TaskThread
\* the Receiver lives in the worker thread's closure: it exists from spawn
\* until the thread leaves the closure
RxAlive == wpc \in {"recv", "call", "store"}

\* a worker that takes the next task while a remote call is still running
WorkerIdle_Busy == wpc \in {"recv", "call"}

\* the worker thread is at rx.recv(), the head of its loop
WorkerIdle == wpc = "recv"

\* dropping an owner of a status cell
DropRef(cl) == IF cl.refs <= 1 THEN NoCell ELSE [cl EXCEPT !.refs = @ - 1]

\* dropping the tasks whose ids are in ids: their PipeWriter closes and
\* their clone of the status cell is released
DropWriters(p, ids) == [i \in CallIds |-> IF i \in ids THEN [p[i] EXCEPT !.wopen = FALSE] ELSE p[i]]

DropCells(cl, ids) == [i \in CallIds |-> IF i \in ids THEN DropRef(cl[i]) ELSE cl[i]]

MarkHist(h, ids, r) == [i \in CallIds |-> IF i \in ids THEN [h[i] EXCEPT !.res = r] ELSE h[i]]

\* the record of a call is kept for the step that returns its result and
\* given up with the next step
Forget == IF last.id = 0 THEN hist ELSE [hist EXCEPT ![last.id] = NoHist]

\* a Drop that sends nothing
QueueAfterDrop_NoShutdown(q, rx) == q

\* a Drop that sends Task::Shutdown twice
QueueAfterDrop_Twice(q, rx) == IF rx THEN q \o <<ShutdownTask, ShutdownTask>> ELSE q

\* impl Drop for TaskThread: send(Task::Shutdown), its error ignored, then
\* the Sender is dropped
QueueAfterDrop(q, rx) == IF rx THEN Append(q, ShutdownTask) ELSE q

\* rx.recv() ends the loop: it yields Task::Shutdown (break), or it is Err
\* because the channel is empty and its Sender is dropped
RecvEndsLoop ==
    \/ queue /= <<>> /\ Head(queue).kind = "Shutdown"
    \/ queue = <<>> /\ ~tx

\* the loop ends: the closure returns and the Receiver is dropped with
\* whatever is still queued
WorkerRecvShutdown ==
    /\ WorkerIdle
    /\ RecvEndsLoop
    /\ wpc' = "exited"
    /\ queue' = <<>>
    /\ pipe' = DropWriters(pipe, QueuedIds(queue))
    /\ cell' = DropCells(cell, QueuedIds(queue))
    /\ hist' = MarkHist(Forget, QueuedIds(queue), "dropped")
    /\ last' = NoResult
    /\ UNCHANGED <<owner, tx, cur, perr, remote, nextCall, callerVars, cacheVars>>

\* a worker that takes the task sent last (a stack instead of a queue)
WorkerRecvDump_Lifo ==
    /\ WorkerIdle
    /\ queue /= <<>>
    /\ queue[Len(queue)].kind = "Dump"
    /\ queue[Len(queue)].service.usable
    /\ cur' = queue[Len(queue)]
    /\ queue' = SubSeq(queue, 1, Len(queue) - 1)
    /\ wpc' = "call"
    /\ remote' = remote \cup {queue[Len(queue)].id}
    /\ hist' = MarkHist(Forget, {queue[Len(queue)].id}, "running")
    /\ last' = NoResult
    /\ UNCHANGED <<owner, tx, perr, pipe, cell, nextCall, callerVars, cacheVars>>

\* Task::Dump whose service.as_proxy() is Some: proxy.dump(writer, &args)
\* starts the remote call
WorkerRecvDump ==
    /\ WorkerIdle
    /\ queue /= <<>>
    /\ Head(queue).kind = "Dump"
    /\ Head(queue).service.usable
    /\ cur' = Head(queue)
    /\ queue' = Tail(queue)
    /\ wpc' = "call"
    /\ remote' = remote \cup {Head(queue).id}
    /\ hist' = MarkHist(Forget, {Head(queue).id}, "running")
    /\ last' = NoResult
    /\ UNCHANGED <<owner, tx, perr, pipe, cell, nextCall, callerVars, cacheVars>>

\* an abandoned task whose writer is never closed
WorkerAbandon_Leak ==
    /\ WorkerIdle
    /\ queue /= <<>>
    /\ Head(queue).kind = "Dump"
    /\ ~Head(queue).service.usable
    /\ queue' = Tail(queue)
    /\ cell' = DropCells(cell, {Head(queue).id})
    /\ hist' = MarkHist(Forget, {Head(queue).id}, "abandoned")
    /\ last' = NoResult
    /\ UNCHANGED <<owner, tx, workerVars, pipe, nextCall, callerVars, cacheVars>>

\* an abandoned task that reports a status (BAD_TYPE) before it is dropped
WorkerAbandon_Store ==
    /\ WorkerIdle
    /\ queue /= <<>>
    /\ Head(queue).kind = "Dump"
    /\ ~Head(queue).service.usable
    /\ queue' = Tail(queue)
    /\ pipe' = DropWriters(pipe, {Head(queue).id})
    /\ cell' = [cell EXCEPT ![Head(queue).id] = DropRef([@ EXCEPT !.val = -22])]
    /\ hist' = MarkHist(Forget, {Head(queue).id}, "abandoned")
    /\ last' = NoResult
    /\ UNCHANGED <<owner, tx, workerVars, nextCall, callerVars, cacheVars>>

\* a worker that leaves its loop on a handle that is no proxy (break instead
\* of continue)
WorkerAbandon_Break ==
    /\ WorkerIdle
    /\ queue /= <<>>
    /\ Head(queue).kind = "Dump"
    /\ ~Head(queue).service.usable
    /\ wpc' = "exited"
    /\ queue' = <<>>
    /\ pipe' = DropWriters(pipe, QueuedIds(queue))
    /\ cell' = DropCells(cell, QueuedIds(queue))
    /\ hist' = MarkHist(MarkHist(Forget, QueuedIds(Tail(queue)), "dropped"),
                        {Head(queue).id}, "abandoned")
    /\ last' = NoResult
    /\ UNCHANGED <<owner, tx, cur, perr, remote, nextCall, callerVars, cacheVars>>

\* Task::Dump whose service.as_proxy() is None: continue drops the task
WorkerAbandon ==
    /\ WorkerIdle
    /\ queue /= <<>>
    /\ Head(queue).kind = "Dump"
    /\ ~Head(queue).service.usable
    /\ queue' = Tail(queue)
    /\ pipe' = DropWriters(pipe, {Head(queue).id})
    /\ cell' = DropCells(cell, {Head(queue).id})
    /\ hist' = MarkHist(Forget, {Head(queue).id}, "abandoned")
    /\ last' = NoResult
    /\ UNCHANGED <<owner, tx, workerVars, nextCall, callerVars, cacheVars>>

\* the remote service writes one byte of dump text into the pipe it was given
RemoteWrite(i, b) ==
    /\ i \in remote
    /\ Len(hist[i].written) < MaxBytes
    /\ pipe' = [pipe EXCEPT ![i].buf = Append(@, b)]
    /\ hist' = [Forget EXCEPT ![i].written = Append(@, b)]
    /\ last' = NoResult
    /\ UNCHANGED <<owner, tx, queue, workerVars, cell, nextCall, callerVars, cacheVars>>

\* proxy.dump returns code: the writer it was given by value is dropped with
\* its frame.  Ok ends the iteration; Err(e) is handed to inspect_err
ProxyDumpReturn(code) ==
    /\ wpc = "call"
    /\ remote' = remote \ {cur.id}
    /\ pipe' = DropWriters(pipe, {cur.id})
    /\ hist' = [Forget EXCEPT ![cur.id].res = IF code = StatusOk THEN "ok" ELSE "err",
                              ![cur.id].code = code]
    /\ last' = NoResult
    /\ IF code = StatusOk
       THEN /\ wpc' = "recv"
            /\ cur' = NoTask
            /\ cell' = DropCells(cell, {cur.id})
            /\ perr' = perr
       ELSE /\ wpc' = "store"
            /\ perr' = code
            /\ UNCHANGED <<cur, cell>>
    /\ UNCHANGED <<owner, tx, queue, nextCall, callerVars, cacheVars>>

\* one status cell for all the calls of a worker: the store reaches the cell
\* of every call that is still open
WorkerStore_Shared ==
    /\ wpc = "store"
    /\ cell' = [i \in CallIds |->
                  IF i = cur.id THEN DropRef([cell[i] EXCEPT !.val = perr])
                  ELSE IF cell[i].refs > 0 THEN [cell[i] EXCEPT !.val = perr]
                  ELSE cell[i]]
    /\ wpc' = "recv"
    /\ cur' = NoTask
    /\ perr' = StatusOk
    /\ hist' = Forget
    /\ last' = NoResult
    /\ UNCHANGED <<owner, tx, queue, remote, pipe, nextCall, callerVars, cacheVars>>

\* a store of one fixed status (BAD_VALUE) whatever the remote call returned
WorkerStore_Fixed ==
    /\ wpc = "store"
    /\ cell' = [cell EXCEPT ![cur.id] = DropRef([@ EXCEPT !.val = -22])]
    /\ wpc' = "recv"
    /\ cur' = NoTask
    /\ perr' = StatusOk
    /\ hist' = Forget
    /\ last' = NoResult
    /\ UNCHANGED <<owner, tx, queue, remote, pipe, nextCall, callerVars, cacheVars>>

\* inspect_err(|e| status.store(i32::from(*e), Ordering::Relaxed)), then the
\* iteration ends and the task's clone of the cell is dropped
WorkerStore ==
    /\ wpc = "store"
    /\ cell' = [cell EXCEPT ![cur.id] = DropRef([@ EXCEPT !.val = perr])]
    /\ wpc' = "recv"
    /\ cur' = NoTask
    /\ perr' = StatusOk
    /\ hist' = Forget
    /\ last' = NoResult
    /\ UNCHANGED <<owner, tx, queue, remote, pipe, nextCall, callerVars, cacheVars>>

\* proxy.dump unwinds: the thread ends, the writer, the cell and the Receiver
\* with every queued task are dropped; nothing is stored
WorkerPanic ==
    /\ wpc = "call"
    /\ wpc' = "panicked"
    /\ cur' = NoTask
    /\ remote' = remote \ {cur.id}
    /\ queue' = <<>>
    /\ pipe' = DropWriters(pipe, {cur.id} \cup QueuedIds(queue))
    /\ cell' = DropCells(cell, {cur.id} \cup QueuedIds(queue))
    /\ hist' = MarkHist(MarkHist(Forget, QueuedIds(queue), "dropped"), {cur.id}, "panic")
    /\ last' = NoResult
    /\ UNCHANGED <<owner, tx, perr, nextCall, callerVars, cacheVars>>

\* -------------------------------------------------------------- dump_inner
AllIdle == \A c \in Callers : pc[c] = "idle"

\* the owner after a dump returns: the one-shot dump drops its TaskThread
OwnerAfter(o) == IF o = "dump" THEN "dropped" ELSE o

\* a dump returns r at once, nothing having been sent: o is the owner that
\* made the call, rx whether the Receiver is alive, q the channel
FailEarly(r, o, rx, q) ==
    /\ last' = r
    /\ hist' = Forget
    /\ queue' = IF o = "dump" THEN QueueAfterDrop(q, rx) ELSE q
    /\ tx' = (o /= "dump")
    /\ owner' = OwnerAfter(o)
    /\ UNCHANGED <<pc, cid, rbuf, pipe, cell, nextCall>>

\* a dump_inner that ignores the Result of send (let _ = ...): when the
\* Receiver is gone the task is dropped with the SendError and the caller
\* goes on to read all the same
EnterDumpInner_IgnoreSend(c, n, h, a, o, rx, q) ==
    \/ FailEarly(ErrOf(0, n, "IO:pipe", 0), o, rx, q)
    \/ /\ nextCall < MaxCalls
       /\ nextCall' = nextCall + 1
       /\ pipe' = [pipe EXCEPT ![nextCall + 1] = [NewPipe EXCEPT !.wopen = rx]]
       /\ cell' = [cell EXCEPT ![nextCall + 1] = IF rx THEN NewCell ELSE DropRef(NewCell)]
       /\ queue' = IF rx THEN Append(q, DumpTask(nextCall + 1, a, h)) ELSE q
       /\ hist' = [Forget EXCEPT ![nextCall + 1] =
                     [name |-> n, service |-> h, written |-> <<>>,
                      res |-> IF rx THEN "queued" ELSE "dropped", code |-> 0]]
       /\ pc' = [pc EXCEPT ![c] = "read"]
       /\ cid' = [cid EXCEPT ![c] = nextCall + 1]
       /\ rbuf' = [rbuf EXCEPT ![c] = <<>>]
       /\ last' = NoResult
       /\ tx' = TRUE
       /\ owner' = o

\* dump_inner up to the read: io::pipe()?, the status cell, send(Task::Dump);
\* n is the service name the caller asked for
EnterDumpInner(c, n, h, a, o, rx, q) ==
    \/ \* io::pipe() fails
       FailEarly(ErrOf(0, n, "IO:pipe", 0), o, rx, q)
    \/ \* send fails: the Receiver is gone; the task comes back in the
       \* SendError and is dropped with its writer and its cell
       /\ ~rx
       /\ FailEarly(ErrOf(0, n, "IO:BrokenPipe", 0), o, rx, q)
    \/ \* the task is queued and the caller goes on to read
       /\ rx
       /\ nextCall < MaxCalls
       /\ nextCall' = nextCall + 1
       /\ pipe' = [pipe EXCEPT ![nextCall + 1] = NewPipe]
       /\ cell' = [cell EXCEPT ![nextCall + 1] = NewCell]
       /\ queue' = Append(q, DumpTask(nextCall + 1, a, h))
       /\ hist' = [Forget EXCEPT ![nextCall + 1] =
                     [name |-> n, service |-> h, written |-> <<>>, res |-> "queued", code |-> 0]]
       /\ pc' = [pc EXCEPT ![c] = "read"]
       /\ cid' = [cid EXCEPT ![c] = nextCall + 1]
       /\ rbuf' = [rbuf EXCEPT ![c] = <<>>]
       /\ last' = NoResult
       /\ tx' = TRUE
       /\ owner' = o

\* dump_inner returns r after the read: reader and status_i32 are dropped,
\* and the one-shot dump then drops its TaskThread
ReturnFrom(c, r) ==
    /\ pc' = [pc EXCEPT ![c] = "idle"]
    /\ cid' = [cid EXCEPT ![c] = 0]
    /\ rbuf' = [rbuf EXCEPT ![c] = <<>>]
    /\ last' = r
    /\ hist' = Forget
    /\ pipe' = [pipe EXCEPT ![cid[c]] = NoPipe]
    /\ cell' = DropCells(cell, {cid[c]})
    /\ queue' = IF owner = "dump" THEN QueueAfterDrop(queue, RxAlive) ELSE queue
    /\ tx' = IF owner = "dump" THEN FALSE ELSE tx
    /\ owner' = OwnerAfter(owner)
    /\ UNCHANGED <<workerVars, nextCall, cacheVars>>

\* the service name the caller's dump was called with
CallName(c) == hist[cid[c]].name

\* every write-end of the call's pipe is closed
AtEof(c) == ~pipe[cid[c]].wopen

\* a String that drops the bytes it was given
ReadToString_Empty(c) ==
    /\ pc[c] = "read"
    /\ AtEof(c)
    /\ pc' = [pc EXCEPT ![c] = "load"]
    /\ pipe' = [pipe EXCEPT ![cid[c]].buf = <<>>]
    /\ hist' = Forget
    /\ last' = NoResult
    /\ UNCHANGED <<owner, tx, queue, workerVars, cell, nextCall, cid, rbuf, cacheVars>>

\* reader.read_to_string(&mut buf): blocks until end of stream, appends every
\* byte of the pipe to buf if they are UTF-8, and fails with InvalidData
\* (leaving buf empty) if they are not
ReadToString(c) ==
    /\ pc[c] = "read"
    /\ AtEof(c)
    /\ IF Utf8Valid(pipe[cid[c]].buf)
       THEN /\ pc' = [pc EXCEPT ![c] = "load"]
            /\ rbuf' = [rbuf EXCEPT ![c] = @ \o pipe[cid[c]].buf]
            /\ pipe' = [pipe EXCEPT ![cid[c]].buf = <<>>]
            /\ hist' = Forget
            /\ last' = NoResult
            /\ UNCHANGED <<owner, tx, queue, workerVars, cell, nextCall, cid, cacheVars>>
       ELSE ReturnFrom(c, ErrOf(cid[c], CallName(c), "IO:InvalidData", 0))

\* status_i32.load(Ordering::Relaxed), then Err(status_code) or Ok(buf)
LoadStatus(c) ==
    /\ pc[c] = "load"
    /\ IF cell[cid[c]].val /= StatusOk
       THEN ReturnFrom(c, ErrOf(cid[c], CallName(c), "DumpStatus", cell[cid[c]].val))
       ELSE ReturnFrom(c, OkText(cid[c], CallName(c), rbuf[c]))

\* ---------------------------------------------------------------- lookups
\* hub::get_service(name) returning Some: a handle not seen before
Found(n, u) == Handle(nextHandle + 1, n, u)

\* ------------------------------------------------------------ Dumpsys
DumpsysNew ==
    /\ owner = "none"
    /\ owner' = "Dumpsys"
    /\ tx' = TRUE
    /\ wpc' = "recv"
    /\ map' = [n \in Names |-> NoHandle]
    /\ last' = OpOk("new", "", FALSE, NoHandle)
    /\ hist' = Forget
    /\ UNCHANGED <<service, queue, cur, perr, remote, pipe, cell, nextCall, nextHandle,
                   callerVars, newest>>

\* an insert that keeps the entry a name already has (entry().or_insert())
InsertService_KeepOld(name) ==
    /\ owner = "Dumpsys"
    /\ AllIdle
    /\ \/ /\ last' = OpErr("insert", name, "ServiceNotExist")
          /\ UNCHANGED <<map, nextHandle, newest>>
       \/ \E u \in BOOLEAN :
            /\ nextHandle < MaxLookups
            /\ nextHandle' = nextHandle + 1
            /\ newest' = [newest EXCEPT ![name] = nextHandle + 1]
            /\ map' = IF map[name] = NoHandle THEN [map EXCEPT ![name] = Found(name, u)] ELSE map
            /\ last' = OpOk("insert", name, map[name] /= NoHandle, Found(name, u))
    /\ hist' = Forget
    /\ UNCHANGED <<owner, service, tx, queue, workerVars, pipe, cell, nextCall, callerVars>>

\* an insert that evicts the entry of a name whose lookup fails
InsertService_EvictOnFail(name) ==
    /\ owner = "Dumpsys"
    /\ AllIdle
    /\ \/ /\ last' = OpErr("insert", name, "ServiceNotExist")
          /\ map' = [map EXCEPT ![name] = NoHandle]
          /\ UNCHANGED <<nextHandle, newest>>
       \/ \E u \in BOOLEAN :
            /\ nextHandle < MaxLookups
            /\ nextHandle' = nextHandle + 1
            /\ newest' = [newest EXCEPT ![name] = nextHandle + 1]
            /\ map' = [map EXCEPT ![name] = Found(name, u)]
            /\ last' = OpOk("insert", name, map[name] /= NoHandle, Found(name, u))
    /\ hist' = Forget
    /\ UNCHANGED <<owner, service, tx, queue, workerVars, pipe, cell, nextCall, callerVars>>

InsertService(name) ==
    /\ owner = "Dumpsys"
    /\ AllIdle
    /\ \/ \* get_service returns None: ok_or(Error::ServiceNotExist)?
          /\ last' = OpErr("insert", name, "ServiceNotExist")
          /\ UNCHANGED <<map, nextHandle, newest>>
       \/ \* map.insert(name, service).is_some()
          \E u \in BOOLEAN :
            /\ nextHandle < MaxLookups
            /\ nextHandle' = nextHandle + 1
            /\ newest' = [newest EXCEPT ![name] = nextHandle + 1]
            /\ map' = [map EXCEPT ![name] = Found(name, u)]
            /\ last' = OpOk("insert", name, map[name] /= NoHandle, Found(name, u))
    /\ hist' = Forget
    /\ UNCHANGED <<owner, service, tx, queue, workerVars, pipe, cell, nextCall, callerVars>>

\* a remove that returns the handle and leaves the entry (get().cloned())
RemoveService_NoEvict(name) ==
    /\ owner = "Dumpsys"
    /\ AllIdle
    /\ IF map[name] = NoHandle
       THEN last' = OpErr("remove", name, "NoEntryFound")
       ELSE last' = OpOk("remove", name, FALSE, map[name])
    /\ map' = map
    /\ hist' = Forget
    /\ UNCHANGED <<owner, service, tx, queue, workerVars, pipe, cell, nextCall, nextHandle,
                   callerVars, newest>>

RemoveService(name) ==
    /\ owner = "Dumpsys"
    /\ AllIdle
    /\ IF map[name] = NoHandle
       THEN /\ last' = OpErr("remove", name, "NoEntryFound")
            /\ map' = map
       ELSE /\ last' = OpOk("remove", name, FALSE, map[name])
            /\ map' = [map EXCEPT ![name] = NoHandle]
    /\ hist' = Forget
    /\ UNCHANGED <<owner, service, tx, queue, workerVars, pipe, cell, nextCall, nextHandle,
                   callerVars, newest>>

\* a dump that reports a missing entry as ServiceNotExist
DumpsysDump_WrongError(c, name, a) ==
    /\ owner = "Dumpsys"
    /\ AllIdle
    /\ IF map[name] = NoHandle
       THEN FailEarly(ErrOf(0, name, "ServiceNotExist", 0), owner, RxAlive, queue)
       ELSE EnterDumpInner(c, name, map[name], a, owner, RxAlive, queue)
    /\ UNCHANGED <<workerVars, cacheVars>>

\* a dump that takes the entry out of the cache (map.remove instead of get)
DumpsysDump_Takes(c, name, a) ==
    /\ owner = "Dumpsys"
    /\ AllIdle
    /\ IF map[name] = NoHandle
       THEN FailEarly(ErrOf(0, name, "NoEntryFound", 0), owner, RxAlive, queue)
       ELSE EnterDumpInner(c, name, map[name], a, owner, RxAlive, queue)
    /\ map' = [map EXCEPT ![name] = NoHandle]
    /\ UNCHANGED <<workerVars, service, nextHandle, newest>>

\* Dumpsys::dump takes &mut self: no other call on the Dumpsys is running
DumpsysDump(c, name, a) ==
    /\ owner = "Dumpsys"
    /\ AllIdle
    /\ IF map[name] = NoHandle
       THEN FailEarly(ErrOf(0, name, "NoEntryFound", 0), owner, RxAlive, queue)
       ELSE EnterDumpInner(c, name, map[name], a, owner, RxAlive, queue)
    /\ UNCHANGED <<workerVars, cacheVars>>

\* ------------------------------------------------------------ BoundDumpsys
\* the service field is evaluated first: on None, ? returns before spawn
BoundNew(name) ==
    /\ owner = "none"
    /\ \/ /\ last' = OpErr("new", name, "ServiceNotExist")
          /\ UNCHANGED <<owner, service, tx, wpc, nextHandle>>
       \/ \E u \in BOOLEAN :
            /\ nextHandle < MaxLookups
            /\ nextHandle' = nextHandle + 1
            /\ service' = Found(name, u)
            /\ owner' = "BoundDumpsys"
            /\ tx' = TRUE
            /\ wpc' = "recv"
            /\ last' = OpOk("new", name, FALSE, Found(name, u))
    /\ hist' = Forget
    /\ UNCHANGED <<map, queue, cur, perr, remote, pipe, cell, nextCall, callerVars, newest>>

\* a BoundDumpsys::dump that looks its service up again on every call
BoundDump_Lookup(c, a) ==
    /\ owner = "BoundDumpsys"
    /\ pc[c] = "idle"
    /\ \E u \in BOOLEAN :
         /\ nextHandle < MaxLookups
         /\ nextHandle' = nextHandle + 1
         /\ EnterDumpInner(c, service.name, Found(service.name, u), a, owner, RxAlive, queue)
    /\ UNCHANGED <<workerVars, map, service, newest>>

\* BoundDumpsys::dump takes &self: callers may be inside it together
BoundDump(c, a) ==
    /\ owner = "BoundDumpsys"
    /\ pc[c] = "idle"
    /\ EnterDumpInner(c, service.name, service, a, owner, RxAlive, queue)
    /\ UNCHANGED <<workerVars, cacheVars>>

\* ------------------------------------------------------------ one-shot dump
\* a one-shot dump that leaks its TaskThread when the lookup fails
\* (mem::forget): nothing is sent and the Sender stays alive
OneShotDump_Leak(c, name, a) ==
    /\ owner = "none"
    /\ AllIdle
    /\ wpc' = "recv"
    /\ \/ /\ last' = ErrOf(0, name, "ServiceNotExist", 0)
          /\ hist' = Forget
          /\ queue' = <<>>
          /\ tx' = TRUE
          /\ owner' = "dropped"
          /\ UNCHANGED <<pc, cid, rbuf, pipe, cell, nextCall, nextHandle>>
       \/ \E u \in BOOLEAN :
            /\ nextHandle < MaxLookups
            /\ nextHandle' = nextHandle + 1
            /\ EnterDumpInner(c, name, Found(name, u), a, "dump", TRUE, <<>>)
    /\ UNCHANGED <<map, service, newest, cur, perr, remote>>

\* TaskThread::spawn(), then get_service, then dump_inner; task_thread is
\* dropped on every way out
OneShotDump(c, name, a) ==
    /\ owner = "none"
    /\ AllIdle
    /\ wpc' = "recv"
    /\ \/ /\ FailEarly(ErrOf(0, name, "ServiceNotExist", 0), "dump", TRUE, <<>>)
          /\ UNCHANGED nextHandle
       \/ \E u \in BOOLEAN :
            /\ nextHandle < MaxLookups
            /\ nextHandle' = nextHandle + 1
            /\ EnterDumpInner(c, name, Found(name, u), a, "dump", TRUE, <<>>)
    /\ UNCHANGED <<map, service, newest, cur, perr, remote>>

\* ------------------------------------------------------------------- drop
\* the Dumpsys or BoundDumpsys goes out of scope: no call borrows it
DropOwner ==
    /\ owner \in {"Dumpsys", "BoundDumpsys"}
    /\ AllIdle
    /\ owner' = "dropped"
    /\ tx' = FALSE
    /\ queue' = QueueAfterDrop(queue, RxAlive)
    /\ map' = [n \in Names |-> NoHandle]
    /\ service' = NoHandle
    /\ hist' = Forget
    /\ last' = NoResult
    /\ UNCHANGED <<workerVars, pipe, cell, nextCall, nextHandle, callerVars, newest>>

\* ------------------------------------------------------------ specification
Next ==
    \/ DumpsysNew
    \/ \E n \in Names : InsertService(n)
    \/ \E n \in Names : RemoveService(n)
    \/ \E c \in Callers, n \in Names, a \in ArgSets : DumpsysDump(c, n, a)
    \/ \E n \in BoundNames : BoundNew(n)
    \/ \E c \in Callers, a \in ArgSets : BoundDump(c, a)
    \/ \E c \in Callers, n \in BoundNames, a \in ArgSets : OneShotDump(c, n, a)
    \/ \E c \in Callers : ReadToString(c)
    \/ \E c \in Callers : LoadStatus(c)
    \/ DropOwner
    \/ WorkerRecvShutdown
    \/ WorkerRecvDump
    \/ WorkerAbandon
    \/ \E i \in CallIds, b \in Bytes : RemoteWrite(i, b)
    \/ \E code \in {StatusOk} \cup ErrCodes : ProxyDumpReturn(code)
    \/ WorkerStore
    \/ WorkerPanic

Spec == Init /\ [][Next]_vars

\* the steps of the worker thread and of the calling threads inside dump_inner
WorkerStep == WorkerRecvShutdown \/ WorkerRecvDump \/ WorkerAbandon \/ WorkerStore

CallerStep(c) == ReadToString(c) \/ LoadStatus(c)

\* every started remote call returns
RemoteReturns == \E code \in {StatusOk} \cup ErrCodes : ProxyDumpReturn(code)

\* the operating system schedules every thread that can run, and the remote
\* service answers every call it was sent
FairSpec ==
    /\ Spec
    /\ WF_vars(WorkerStep)
    /\ WF_vars(RemoteReturns)
    /\ \A c \in Callers : WF_vars(CallerStep(c))

\* ------------------------------------------------------------------ claims
\* the call whose result the step just taken returned, if it reached the worker
Returned == last.op = "dump" /\ last.id /= 0

\* C1 as stated: whenever the remote dump call returned success having
\* written the bytes B, the dump returns Ok with exactly B
C1_AnyBytesReturned ==
    (Returned /\ hist[last.id].res = "ok")
        => (last.tag = "Ok" /\ last.text = hist[last.id].written)

\* C1 amended: whenever the remote dump call returned success having written
\* the bytes B, the dump returns Ok with exactly B if B is valid UTF-8, and
\* fails with the I/O error InvalidData if it is not
C1_Utf8BytesReturned ==
    (Returned /\ hist[last.id].res = "ok")
        => IF Utf8Valid(hist[last.id].written)
           THEN last.tag = "Ok" /\ last.text = hist[last.id].written
           ELSE last.tag = "Err" /\ last.err = "IO:InvalidData"

\* a dump returns Ok with at least two bytes, which the remote call wrote
\* before returning success
C1_Witness ==
    /\ Returned
    /\ hist[last.id].res = "ok"
    /\ last.tag = "Ok"
    /\ Len(last.text) >= 2

\* C2: whenever the remote dump call returned a non-OK status, having written
\* bytes that are valid UTF-8 (so that the read of the pipe itself succeeds),
\* the dump returns Error::DumpStatus with that status code
C2_FailureStatusReturned ==
    (Returned /\ hist[last.id].res = "err" /\ Utf8Valid(hist[last.id].written))
        => (last.tag = "Err" /\ last.err = "DumpStatus" /\ last.code = hist[last.id].code)

\* C9: a dump whose task the worker abandoned (as_proxy() was None) returns
\* Ok with empty text, nothing having been written to its pipe
C9_AbandonedIsEmptyOk ==
    (Returned /\ hist[last.id].res = "abandoned")
        => (last.tag = "Ok" /\ last.text = <<>> /\ hist[last.id].written = <<>>)

\* a dump on a handle that is no proxy has returned
C9_Witness ==
    /\ Returned
    /\ hist[last.id].res = "abandoned"
    /\ ~hist[last.id].service.usable
    /\ last.tag = "Ok"

\* C3: at most one remote dump call of a worker is running at any time, and
\* a dump call that is in progress while every other caller is in a dump
\* call too completes
C3_OneRemoteCallAtATime ==
    /\ [](Cardinality(remote) <= 1)
    /\ \A c \in Callers :
         (\A d \in Callers : pc[d] /= "idle") ~> (pc[c] = "idle")

\* two callers are inside BoundDumpsys::dump, the remote call of the first
\* is running and the task of the second waits in the channel
C3_Witness ==
    /\ \A c \in Callers : pc[c] = "read"
    /\ Cardinality(remote) = 1
    /\ Len(queue) = 1

\* C4: a Dumpsys::dump of a name that is not in the cache returns
\* NoEntryFound in the step that calls it, with no lookup made and no task
\* sent; and no task is ever sent for a name that is not in the cache
C4_AbsentNameFails ==
    [][/\ (owner = "Dumpsys" /\ last'.op = "dump" /\ map[last'.name] = NoHandle)
           => /\ last'.tag = "Err" /\ last'.err = "NoEntryFound" /\ last'.id = 0
              /\ UNCHANGED <<nextHandle, nextCall, queue, pc, map>>
       /\ (owner = "Dumpsys" /\ nextCall' /= nextCall)
           => map[hist'[nextCall'].name] /= NoHandle]_vars

\* a dump of a name that was inserted and then removed returns NoEntryFound
C4_Witness ==
    /\ owner = "Dumpsys"
    /\ last.op = "dump"
    /\ last.err = "NoEntryFound"
    /\ newest[last.name] /= 0

\* C5: a successful insert_service(name) returns true exactly when name was
\* cached before it; and every task of a Dumpsys that is queued or running
\* carries the handle that the last successful insert of its name resolved
C5_InsertReplaces ==
    /\ [][(last'.op = "insert" /\ last'.tag = "Ok")
             => (last'.val = (map[last'.name] /= NoHandle))]_vars
    /\ [](owner = "Dumpsys" =>
            \A i \in CallIds : hist[i].res \in {"queued", "running"} =>
                /\ hist[i].service.name = hist[i].name
                /\ hist[i].service.id = newest[hist[i].name]
                /\ \A k \in 1..Len(queue) : queue[k].id = i => queue[k].service = hist[i].service
                /\ (cur.id = i => cur.service = hist[i].service))

\* the remote call of a dump runs on the handle of the second insert of its
\* name, the one that returned true
C5_Witness ==
    /\ owner = "Dumpsys"
    /\ wpc = "call"
    /\ cur.service.id = 2
    /\ \E n \in Names : newest[n] = 2 /\ \A m \in Names \ {n} : newest[m] = 0

\* C6: remove_service(name) of a cached name returns its handle and evicts
\* that entry only; of an absent name it fails with NoEntryFound and leaves
\* the cache as it is; an absent name stays absent until an insert_service of
\* it succeeds, and a dump of an absent name fails with NoEntryFound
C6_RemoveEvicts ==
    [][/\ last'.op = "remove" =>
            IF map[last'.name] /= NoHandle
            THEN /\ last'.tag = "Ok" /\ last'.handle = map[last'.name]
                 /\ map' = [map EXCEPT ![last'.name] = NoHandle]
            ELSE /\ last'.tag = "Err" /\ last'.err = "NoEntryFound"
                 /\ map' = map
       /\ \A n \in Names : (map[n] = NoHandle /\ map'[n] /= NoHandle)
            => (last'.op = "insert" /\ last'.name = n /\ last'.tag = "Ok")
       /\ (owner = "Dumpsys" /\ last'.op = "dump" /\ map[last'.name] = NoHandle)
            => (last'.tag = "Err" /\ last'.err = "NoEntryFound")]_vars

\* a second remove_service of a name fails with NoEntryFound
C6_Witness ==
    /\ last.op = "remove"
    /\ last.err = "NoEntryFound"
    /\ newest[last.name] /= 0

\* the worker thread has ended
WorkerGone == wpc \in {"exited", "panicked"}

\* C7: once the owner is dropped the worker thread ends; the drop puts
\* Task::Shutdown last in the channel of a live worker and drops the Sender,
\* and the worker loop ends by taking Task::Shutdown from the channel
C7_DropEndsWorker ==
    /\ (owner = "dropped") ~> WorkerGone
    /\ [][/\ (owner /= "dropped" /\ owner' = "dropped" /\ RxAlive')
              => (queue' /= <<>> /\ queue'[Len(queue')] = ShutdownTask /\ ~tx')
          /\ (wpc = "recv" /\ wpc' = "exited")
              => (queue /= <<>> /\ Head(queue) = ShutdownTask)]_vars

\* a Dumpsys or BoundDumpsys that made two dumps was dropped and its worker
\* thread has left its loop
C7_Witness ==
    /\ owner = "dropped"
    /\ wpc = "exited"
    /\ nextCall >= 2

\* C8: every dump call that waits on its pipe returns, and a caller only
\* comes to wait on a pipe whose task a live worker thread's channel took
C8_DumpNeverHangs ==
    /\ \A c \in Callers : (pc[c] /= "idle") ~> (pc[c] = "idle")
    /\ [][\A c \in Callers : (pc[c] = "idle" /\ pc'[c] = "read") => RxAlive']_vars

\* a dump has failed at once with BrokenPipe on a worker whose thread ended
\* while another caller was still reading
C8_Witness ==
    /\ wpc = "panicked"
    /\ last.err = "IO:BrokenPipe"
    /\ \E c \in Callers : pc[c] = "read"

\* C10: insert_service fails only with ServiceNotExist, when the lookup gave
\* no handle, and then leaves the cache as it is; when the lookup gave a
\* handle it succeeds and caches it; and every cached handle is the one the
\* last successful lookup of its name returned
C10_InsertResolves ==
    /\ [][last'.op = "insert" =>
            IF nextHandle' = nextHandle
            THEN /\ last'.tag = "Err" /\ last'.err = "ServiceNotExist"
                 /\ map' = map
            ELSE /\ last'.tag = "Ok"
                 /\ last'.handle = Handle(nextHandle', last'.name, last'.handle.usable)
                 /\ map' = [map EXCEPT ![last'.name] = last'.handle]]_vars
    /\ [](\A n \in Names : map[n] /= NoHandle =>
            /\ map[n].name = n
            /\ map[n].id \in 1..nextHandle
            /\ map[n].id = newest[n])

\* an insert_service of a cached name failed and the entry is still cached
C10_Witness ==
    /\ last.op = "insert"
    /\ last.err = "ServiceNotExist"
    /\ map[last.name] /= NoHandle

\* C11: no step of a Dumpsys::dump changes the cache: the step that calls it
\* (whether it fails with NoEntryFound, fails at once with an I/O error or
\* queues its task), every step taken while it waits, and the step that
\* returns its result leave the mapping, and the number of lookups made, as
\* they were
C11_DumpKeepsCache ==
    [][(owner = "Dumpsys" /\ (last'.op = "dump" \/ ~AllIdle \/ ~AllIdle'))
          => UNCHANGED <<map, nextHandle, newest>>]_vars

\* a Dumpsys::dump of a cached name has failed with the status of its remote
\* call, and the name is still cached
C11_Witness ==
    /\ owner = "Dumpsys"
    /\ Returned
    /\ last.err = "DumpStatus"
    /\ map[last.name] /= NoHandle
    /\ map[last.name] = hist[last.id].service

\* a step in which a dump is called on a Dumpsys or a BoundDumpsys: it either
\* returns at once or queues a task
OwnedDumpCalled ==
    /\ owner \in {"Dumpsys", "BoundDumpsys"}
    /\ (last'.op = "dump" /\ last'.id = 0) \/ nextCall' /= nextCall

\* C12: a dump fails with BrokenPipe only when the worker thread has ended,
\* and then without a pipe read or a task queued; on an ended worker a dump
\* that got as far as the send (it found its name and made its pipe) fails
\* with BrokenPipe; on a live worker the task is appended to the channel in
\* the step of the call, the worker not having moved; the one-shot dump never
\* fails with BrokenPipe; and while the owner is alive the worker thread has
\* only ended if a remote call crashed it
C12_SendFailsIffWorkerGone ==
    /\ [][/\ (last'.op = "dump" /\ last'.err = "IO:BrokenPipe")
              => /\ owner \in {"Dumpsys", "BoundDumpsys"} /\ ~RxAlive
                 /\ last'.id = 0
                 /\ UNCHANGED <<nextCall, pipe, cell, pc, cid, queue>>
          /\ (OwnedDumpCalled /\ ~RxAlive)
              => /\ nextCall' = nextCall
                 /\ last'.err \in {"NoEntryFound", "IO:pipe", "IO:BrokenPipe"}
          /\ (OwnedDumpCalled /\ RxAlive /\ last'.op = "dump")
              => last'.err \in {"NoEntryFound", "IO:pipe"}
          /\ (nextCall' /= nextCall)
              => /\ RxAlive'
                 /\ Len(queue') >= 1
                 /\ queue'[Len(queue')].kind = "Dump"
                 /\ queue'[Len(queue')].id = nextCall'
                 /\ hist'[nextCall'].res = "queued"
                 /\ last' = NoResult
                 /\ UNCHANGED <<cur, perr, remote>>]_vars
    /\ []((owner \in {"Dumpsys", "BoundDumpsys", "dump"} /\ wpc /= "panicked") => RxAlive)

\* a Dumpsys::dump of a cached name has failed with BrokenPipe after a remote
\* call crashed the worker thread, the Dumpsys being still alive
C12_Witness ==
    /\ owner = "Dumpsys"
    /\ wpc = "panicked"
    /\ last.op = "dump"
    /\ last.err = "IO:BrokenPipe"
    /\ map[last.name] /= NoHandle

\* C13: BoundDumpsys::new that finds no service fails with ServiceNotExist,
\* spawns no worker thread and builds nothing; one that finds a service keeps
\* the handle of that one lookup and spawns the worker; from then on no
\* lookup is made and the handle stays the same while the BoundDumpsys
\* lives, an ended worker thread is never replaced, and every task in the
\* channel or in the worker's hands carries that handle
C13_BoundResolvesOnce ==
    /\ [][/\ (last'.op = "new" /\ last'.tag = "Err")
              => /\ last'.err = "ServiceNotExist"
                 /\ owner' = "none" /\ wpc' = "unspawned" /\ ~tx'
                 /\ nextHandle' = nextHandle
          /\ (owner = "none" /\ owner' = "BoundDumpsys")
              => /\ last'.op = "new" /\ last'.tag = "Ok"
                 /\ nextHandle' = nextHandle + 1
                 /\ service' = Handle(nextHandle', last'.name, service'.usable)
                 /\ service' = last'.handle
                 /\ wpc' = "recv"
          /\ (owner = "BoundDumpsys")
              => /\ nextHandle' = nextHandle
                 /\ owner' = "BoundDumpsys" => service' = service
                 /\ wpc \in {"exited", "panicked"} => wpc' = wpc]_vars
    /\ [](owner = "BoundDumpsys" =>
            /\ service /= NoHandle
            /\ \A k \in 1..Len(queue) : queue[k].kind = "Dump" /\ queue[k].service = service
            /\ cur.kind = "Dump" => cur.service = service
            /\ \A i \in CallIds : hist[i].res /= "none" => hist[i].service = service)

\* the remote call of the second dump of a BoundDumpsys runs on the handle of
\* the only lookup made
C13_Witness ==
    /\ owner = "BoundDumpsys"
    /\ wpc = "call"
    /\ cur.id = 2
    /\ cur.service = service
    /\ nextHandle = 1

\* C14: whenever a caller has seen the end of its pipe and is about to load
\* its status cell, and the remote call of its task returned a failure
\* status, the worker has already stored that status in the cell
C14_StoreBeforeLoad ==
    \A c \in Callers :
        (pc[c] = "load" /\ hist[cid[c]].res = "err")
            => (cell[cid[c]].val = hist[cid[c]].code /\ ~(wpc = "store" /\ cur.id = cid[c]))

\* the worker takes the task of call j from the channel in this step
Took(j) == hist[j].res = "queued" /\ hist'[j].res \in {"running", "abandoned"}

\* C15: the dump tasks in the channel are in the order of their submission and
\* are the tasks not yet taken; the worker takes a task only from the head of
\* the channel, when it holds no task and no remote call is running, and
\* every task submitted before it has by then been handled to its end; a
\* task that was taken is never queued or taken again; and while the worker
\* thread lives no task has been dropped unhandled
C15_FifoExecution ==
    /\ [](/\ \A k \in 1..Len(queue) : queue[k].kind = "Dump" =>
                /\ queue[k].id \in 1..nextCall
                /\ hist[queue[k].id].res = "queued"
                /\ cur.id < queue[k].id
                /\ \A m \in 1..Len(queue) :
                      (m < k /\ queue[m].kind = "Dump") => queue[m].id < queue[k].id
          /\ \A i \in CallIds : hist[i].res = "queued" => i \in QueuedIds(queue)
          /\ RxAlive => \A i \in CallIds : hist[i].res \notin {"dropped", "panic"})
    /\ [][\A j \in CallIds :
            /\ Took(j) =>
                  /\ wpc = "recv" /\ cur = NoTask /\ remote = {}
                  /\ queue /= <<>> /\ Head(queue).id = j
                  /\ queue' = Tail(queue)
                  /\ \A i \in 1..(j - 1) : hist[i].res \in {"none", "ok", "err", "abandoned"}
            /\ (hist[j].res = "queued" /\ hist'[j].res /= "queued" /\ RxAlive')
                  => Took(j)
            /\ hist[j].res \notin {"none", "queued"}
                  => (hist'[j].res /= "queued" /\ j \notin QueuedIds(queue'))]_vars

\* of two dumps that are both still reading, the remote call of the second
\* is running after the remote call of the first has failed and its status
\* has been stored
C15_Witness ==
    /\ \A c \in Callers : pc[c] = "read"
    /\ wpc = "call"
    /\ cur.id = 2
    /\ hist[1].res = "err"
    /\ cell[1].val = hist[1].code

\* C16: Task::Shutdown is only in the channel of a dropped owner, once and
\* last, and nothing is sent after it; the drop leaves the tasks in the
\* channel where they are; when the worker leaves its loop it holds no task,
\* no dump task is queued or running and none is dropped with the Receiver;
\* and a task is only ever dropped unhandled by a crash of the worker thread
C16_ShutdownAfterQueuedTasks ==
    /\ [](\A k \in 1..Len(queue) : queue[k].kind = "Shutdown" =>
            (k = Len(queue) /\ owner = "dropped" /\ ~tx))
    /\ [][/\ (owner /= "dropped" /\ owner' = "dropped")
              => (queue' = queue \/ queue' = Append(queue, ShutdownTask))
          /\ (owner = "dropped")
              => /\ nextCall' = nextCall
                 /\ queue' = queue \/ (queue /= <<>> /\ queue' = Tail(queue))
          /\ (wpc /= "exited" /\ wpc' = "exited")
              => /\ wpc = "recv" /\ cur = NoTask /\ remote = {}
                 /\ QueuedIds(queue) = {}
                 /\ \A i \in CallIds : hist[i].res \notin {"queued", "running"}
                 /\ UNCHANGED <<pipe, cell>>
          /\ \A i \in CallIds : (hist[i].res /= "dropped" /\ hist'[i].res = "dropped")
              => wpc' = "panicked"]_vars

\* the owner has been dropped and Task::Shutdown is in the channel while the
\* worker is still at the status store of the last dump task
C16_Witness ==
    /\ owner = "dropped"
    /\ wpc = "store"
    /\ queue = <<ShutdownTask>>
    /\ nextCall >= 1

\* C17: the step that abandons a task (its handle is no proxy) leaves the
\* worker at rx.recv() with the rest of the channel untouched; a remote call
\* that returns a failure takes the worker to the status store and from there
\* back to rx.recv(), the channel untouched; the worker thread only leaves
\* its loop at rx.recv(), on Task::Shutdown or on a closed empty channel, and
\* only crashes inside a remote call; and a worker at rx.recv() with a task
\* in its channel can always take a step
C17_FailedTaskKeepsWorker ==
    /\ [][/\ \A j \in CallIds :
               /\ (hist[j].res = "queued" /\ hist'[j].res = "abandoned")
                     => (wpc' = "recv" /\ RxAlive' /\ queue' = Tail(queue))
               /\ (hist[j].res = "running" /\ hist'[j].res = "err")
                     => (wpc' = "store" /\ cur' = cur /\ cur.id = j /\ queue' = queue)
          /\ (wpc = "store" /\ wpc' /= "store")
               => (wpc' = "recv" /\ cur' = NoTask /\ UNCHANGED <<queue, pipe, remote>>)
          /\ (wpc /= "exited" /\ wpc' = "exited")
               => (wpc = "recv" /\ RecvEndsLoop)
          /\ (wpc /= "panicked" /\ wpc' = "panicked")
               => (wpc = "call" /\ hist[cur.id].res = "running")]_vars
    /\ []((wpc = "recv" /\ queue /= <<>>) => ENABLED WorkerStep)

\* two tasks on a handle that is no proxy have been abandoned one after the
\* other and the worker thread is at rx.recv()
C17_Witness ==
    /\ wpc = "recv"
    /\ hist[1].res = "abandoned"
    /\ hist[2].res = "abandoned"

\* the calling thread c loads its status cell in this step
Loads(c) == pc[c] = "load" /\ pc'[c] /= "load"

\* C18: the cell of a dump call is created holding OK, with one owner on each
\* side; its value only changes at the worker's status store of that call's
\* task, from OK to the failure code its remote call returned, so that a
\* cell that does not hold OK holds the code of its failed remote call; a
\* caller comes to the load only from the read, at the end of its pipe, and
\* leaves it only by returning, so that a call loads at most once; a dump
\* that returns Ok or DumpStatus has loaded in that step and returns
\* DumpStatus exactly when the cell did not hold OK, with the code it held;
\* and a dump that returns any other error has not loaded
C18_StatusCellProtocol ==
    /\ [](/\ \A i \in CallIds : cell[i].val /= StatusOk =>
                /\ hist[i].res = "err"
                /\ cell[i].val = hist[i].code
                /\ ~(wpc = "store" /\ cur.id = i)
          /\ wpc = "store" => (cell[cur.id].refs >= 1 /\ perr \in ErrCodes)
          /\ \A c \in Callers : pc[c] = "load" =>
                (cid[c] \in CallIds /\ ~pipe[cid[c]].wopen /\ cell[cid[c]].refs >= 1))
    /\ [][/\ (nextCall' /= nextCall) => cell'[nextCall'] = NewCell
          /\ \A i \in CallIds :
                (cell[i].refs > 0 /\ cell'[i].refs > 0 /\ cell'[i].val /= cell[i].val)
                  => /\ wpc = "store" /\ wpc' = "recv" /\ cur.id = i
                     /\ cell[i].val = StatusOk
                     /\ cell'[i].val = perr
                     /\ hist[i].res = "err" /\ hist[i].code = perr
          /\ \A c \in Callers :
                /\ (pc[c] /= "load" /\ pc'[c] = "load")
                      => (pc[c] = "read" /\ AtEof(c) /\ cid'[c] = cid[c])
                /\ Loads(c)
                      => /\ pc'[c] = "idle" /\ last'.op = "dump" /\ last'.id = cid[c]
                         /\ IF cell[cid[c]].val = StatusOk
                            THEN last'.tag = "Ok"
                            ELSE /\ last'.err = "DumpStatus"
                                 /\ last'.code = cell[cid[c]].val
          /\ (last'.op = "dump" /\ (last'.tag = "Ok" \/ last'.err = "DumpStatus"))
                => \E c \in Callers : Loads(c) /\ cid[c] = last'.id
          /\ (last'.op = "dump" /\ last'.tag = "Err" /\ last'.err /= "DumpStatus")
                => \A c \in Callers : ~Loads(c)]_vars

\* a caller is about to load a cell in which the worker has stored the
\* status DEAD_OBJECT of the failed remote call, the worker's clone of the
\* cell being dropped
C18_Witness ==
    \E c \in Callers :
        /\ pc[c] = "load"
        /\ cell[cid[c]] = [refs |-> 1, val |-> -32]
        /\ hist[cid[c]].code = -32

\* a dump call made before the one that returns has had the failure status
\* of its remote call stored in its cell
EarlierCallFailed == \E i \in 1..(last.id - 1) : cell[i].val /= StatusOk

\* C19 as stated: calls to dump_inner that are open together have different
\* pipes and cells, and a dump whose remote call returned success, an earlier
\* dump of the worker having failed with a remote status, returns Ok with
\* the bytes its own remote call wrote
C19_OwnBytesReturned ==
    /\ \A c, d \in Callers : (c /= d /\ cid[c] /= 0) => cid[c] /= cid[d]
    /\ (Returned /\ hist[last.id].res = "ok" /\ EarlierCallFailed)
          => (last.tag = "Ok" /\ last.text = hist[last.id].written)

\* C19 amended: calls to dump_inner that are open together have different
\* pipes and cells; a pipe only holds bytes the remote call of its own task
\* wrote, and a write into one pipe leaves every other pipe as it is; a cell
\* only holds a failure status that the remote call of its own task
\* returned; a dump that returns Ok returns the bytes of its own remote
\* call, one that returns DumpStatus returns the code of its own remote
\* call, one that returns InvalidData had invalid UTF-8 written by its own
\* remote call; and a dump whose remote call returned success, whether or
\* not another dump has failed, returns Ok with its own bytes if they are
\* valid UTF-8 and InvalidData if they are not
C19_OwnResultOnly ==
    /\ [](/\ \A c, d \in Callers : (c /= d /\ cid[c] /= 0) => cid[c] /= cid[d]
          /\ \A i \in CallIds :
                /\ pipe[i].buf \in {<<>>, hist[i].written}
                /\ cell[i].val /= StatusOk => cell[i].val = hist[i].code
          /\ Returned =>
                /\ last.tag = "Ok" => last.text = hist[last.id].written
                /\ last.err = "DumpStatus" =>
                      (hist[last.id].res = "err" /\ last.code = hist[last.id].code)
                /\ last.err = "IO:InvalidData" => ~Utf8Valid(hist[last.id].written)
                /\ hist[last.id].res = "ok" =>
                      IF Utf8Valid(hist[last.id].written)
                      THEN last.tag = "Ok" /\ last.text = hist[last.id].written
                      ELSE last.tag = "Err" /\ last.err = "IO:InvalidData")
    /\ [][\A i \in CallIds :
            (Len(pipe'[i].buf) > Len(pipe[i].buf))
              => /\ i \in remote /\ cur.id = i
                 /\ \A j \in CallIds \ {i} : pipe'[j] = pipe[j]
                 /\ UNCHANGED <<cell, rbuf>>]_vars

\* the second dump of a worker returns Ok with the two bytes its remote call
\* wrote, while the cell of the first dump, whose remote call wrote nothing,
\* holds the failure status that call returned
C19_Witness ==
    /\ Returned
    /\ last.id = 2
    /\ last.tag = "Ok"
    /\ last.text = <<195, 169>>
    /\ hist[2].res = "ok"
    /\ hist[1].res = "err"
    /\ hist[1].written = <<>>
    /\ cell[1].val = hist[1].code

\* the one-shot dump has spawned its worker and not told it to shut down and
\* gone yet: it is waiting in dump_inner, or it has just returned
OneShotPending == owner = "dump" \/ (owner = "dropped" /\ last.op = "dump")

\* C20: a one-shot dump that returns in the step of its call (the lookup
\* found nothing, or io::pipe failed) has spawned its worker, submitted no
\* task, put Task::Shutdown in the channel and dropped the Sender; one that
\* goes on to read has made one lookup and queued one task on its own new
\* worker; when it returns from the read, with Ok or with an error, no dump
\* task is in the channel, Task::Shutdown is appended to the channel of a
\* live worker and the Sender is dropped; the one-shot dump caches nothing;
\* and the worker thread of a one-shot dump ends
C20_OneShotRetainsNothing ==
    /\ [][/\ (owner = "none" /\ last'.op = "dump")
              => /\ last'.err \in {"ServiceNotExist", "IO:pipe"}
                 /\ last'.err = "ServiceNotExist" => nextHandle' = nextHandle
                 /\ owner' = "dropped" /\ ~tx'
                 /\ wpc' = "recv"
                 /\ queue' = <<ShutdownTask>>
                 /\ UNCHANGED <<nextCall, pipe, cell, pc>>
          /\ (owner = "none" /\ owner' = "dump")
              => /\ wpc' = "recv" /\ tx'
                 /\ nextHandle' = nextHandle + 1
                 /\ nextCall' = nextCall + 1
                 /\ Len(queue') = 1 /\ queue'[1].kind = "Dump" /\ queue'[1].id = nextCall'
                 /\ queue'[1].service.id = nextHandle'
          /\ (owner = "dump")
              => /\ nextCall' = nextCall /\ nextHandle' = nextHandle
                 /\ owner' \in {"dump", "dropped"}
                 /\ (owner' = "dropped") <=> (last'.op = "dump")
          /\ (owner = "dump" /\ owner' = "dropped")
              => /\ ~tx'
                 /\ QueuedIds(queue) = {}
                 /\ queue' = IF RxAlive THEN Append(queue, ShutdownTask) ELSE queue
                 /\ AllIdle'
          /\ (owner \in {"none", "dump"} /\ owner' \in {"dump", "dropped"})
              => UNCHANGED <<map, service, newest>>]_vars
    /\ [](owner = "dump" =>
            /\ tx /\ wpc /= "unspawned"
            /\ \A n \in Names : map[n] = NoHandle
            /\ service = NoHandle
            /\ Cardinality({c \in Callers : pc[c] /= "idle"}) = 1)
    /\ OneShotPending ~> WorkerGone

\* a one-shot dump has failed with ServiceNotExist: no lookup succeeded, no
\* task was submitted, the handle is dropped and Task::Shutdown is the only
\* task in the channel of the worker it spawned
C20_Witness ==
    /\ owner = "dropped"
    /\ last.op = "dump"
    /\ last.err = "ServiceNotExist"
    /\ queue = <<ShutdownTask>>
    /\ wpc = "recv"
    /\ nextCall = 0
    /\ nextHandle = 0

====
